---- MODULE Spec2Model ----
(***************************************************************************)
(* A model of auto_select_stock.py: the instrument list, the download and  *)
(* selection fan-outs of main, the screening rule of select_stock with the *)
(* indicators of calculate_indicators, and the count history that main     *)
(* reads, extends and writes back on every run.                            *)
(*                                                                         *)
(* Dates are day ordinals (ordinal 0 is Monday 2023-11-06); a formatted    *)
(* date, "%Y-%m-%d", is the triple <<year, month, day>>, whose component-  *)
(* wise order is the order of the zero-padded strings.  Prices are         *)
(* integers, whose sums and differences pandas computes exactly; a float   *)
(* is a record that is NaN, an infinity or a fraction num/den, and the     *)
(* thresholds of line 100 are compared with the exact fraction.            *)
(***************************************************************************)
EXTENDS Integers, Sequences, FiniteSets, TLC

VARIABLES
    now,              \* the wall clock, as a day ordinal
    day0,             \* the day of the first state
    pc,               \* where main stands
    runs,             \* runs of main started so far
    stock_list,       \* main: stock_list['代码']
    files,            \* HISTORY_DIR: code -> content of <code>.csv
    dl_pending,       \* download futures not yet completed
    failed_list,      \* main: failed_list
    sel_pending,      \* selection futures not yet completed
    result,           \* code -> what its selection future returned
    selected_stocks,  \* main: selected_stocks, in completion order
    selected_file,    \* OUTPUT_DIR/selected_stocks.csv
    history_file,     \* OUTPUT_DIR/stock_count_history.csv
    chart,            \* the df_history last handed to plot_count_history
    history_at_start, \* history_file as it was when the current run started
    bars,             \* the bar series a single select_stock call reads
    fin,              \* the eligibility lookup of that call
    inst,             \* the instrument's true market value and listing date
    res               \* what that call returned

vars == <<now, day0, pc, runs, stock_list, files, dl_pending, failed_list, sel_pending,
          result, selected_stocks, selected_file, history_file, chart,
          history_at_start, bars, fin, inst, res>>

batchVars == <<pc, runs, stock_list, files, dl_pending, failed_list, sel_pending,
               result, selected_stocks, selected_file, history_at_start>>

screenVars == <<bars, fin, inst, res>>

----------------------------------------------------------------------------
(* Configuration *)

TRADE_DAYS_HISTORY == 21
MIN_MKT_CAP == 2
MIN_LIST_DAYS == 60
N1 == 9
N2 == 10
N3 == 20
RSI_MIN == 70
WR_MAX == 20
YI == 100000000

(* Bounds *)

\* the clock advances at most this many days in a behaviour
MaxTicks == 1
\* the largest number of selected instruments a run of main may report
MaxCount == 1
\* rows the count history may hold beyond TRADE_DAYS_HISTORY before runs stop
MaxExtraRows == 1
\* bars a series may hold beyond the longest window
ExtraBars == 1
\* runs of main in a behaviour
MaxRuns == 1

Last(s) == s[Len(s)]

\* a file that does not exist (os.path.exists is false), and one that does
NoFile == [exists |-> FALSE, rows |-> <<>>]
File(rows) == [exists |-> TRUE, rows |-> rows]

----------------------------------------------------------------------------
(* The calendar: datetime arithmetic, weekday(), strftime("%Y-%m-%d"),     *)
(* pd.to_datetime.                                                         *)

MonthTable ==
    { [year |-> 2023, month |-> 10, first |-> -36, days |-> 31],
      [year |-> 2023, month |-> 11, first |-> -5,  days |-> 30],
      [year |-> 2023, month |-> 12, first |-> 25,  days |-> 31],
      [year |-> 2024, month |-> 1,  first |-> 56,  days |-> 31],
      [year |-> 2024, month |-> 2,  first |-> 87,  days |-> 29] }

\* datetime.weekday(): Monday is 0, Sunday is 6
weekday(d) == d % 7

\* datetime.strftime("%Y-%m-%d")
strftime(d) ==
    LET e == CHOOSE e \in MonthTable : e.first <= d /\ d < e.first + e.days
    IN  <<e.year, e.month, d - e.first + 1>>

\* pd.to_datetime of a "%Y-%m-%d" string
to_datetime(s) ==
    LET e == CHOOSE e \in MonthTable : e.year = s[1] /\ e.month = s[2]
    IN  e.first + s[3] - 1

\* the first day main may run on: a Tuesday, 2023-12-26
FirstDay == 50
FirstDays == FirstDay .. FirstDay + 6

----------------------------------------------------------------------------
(* The count history: main, lines 151-169.                                 *)

Row(d, n) == [date |-> strftime(d), count |-> n]

\* the loop "for i in range(TRADE_DAYS_HISTORY, 0, -1)" from i downwards
RECURSIVE BackfillFrom(_, _)
BackfillFrom(i, today) ==
    IF i <= 0 THEN <<>>
    ELSE IF weekday(today - i) >= 5
         THEN BackfillFrom(i - 1, today)
         ELSE <<Row(today - i, 0)>> \o BackfillFrom(i - 1, today)

Backfill(today) == BackfillFrom(TRADE_DAYS_HISTORY, today)

\* a slip that puts the new row before the rows read from the file
UpdateHistory_Prepend(hist, today, later, n) ==
    LET df_history == IF hist.exists THEN hist.rows ELSE Backfill(later)
    IN  <<Row(today, n)>> \o df_history

\* df_history after line 165.  today is the datetime.now() of line 153 and
\* later the datetime.now() of line 160, read again for every backfilled row
UpdateHistory(hist, today, later, n) ==
    LET df_history == IF hist.exists THEN hist.rows ELSE Backfill(later)
    IN  df_history \o <<Row(today, n)>>

\* lines 151-169: read, extend, write back, plot.  Midnight may pass between
\* line 153 and the loop of lines 159-163, which runs within one day.
RecordCount(n) ==
    \E later \in {now, now + 1} :
        /\ later <= day0 + MaxTicks
        /\ now' = later
        /\ history_file' = File(UpdateHistory(history_file, now, later, n))
        /\ chart' = UpdateHistory(history_file, now, later, n)

HistLen == Len(history_file.rows)

----------------------------------------------------------------------------
(* Floats, as far as calculate_indicators and select_stock use them.       *)

NaN == [k |-> "nan", n |-> 0, d |-> 1]
Inf(sign) == [k |-> "inf", n |-> sign, d |-> 1]
Fin(n, d) == IF d < 0 THEN [k |-> "fin", n |-> -n, d |-> -d]
             ELSE [k |-> "fin", n |-> n, d |-> d]
Num(n) == Fin(n, 1)

Sign(n) == IF n > 0 THEN 1 ELSE IF n < 0 THEN -1 ELSE 0

\* a - b
FSub(a, b) ==
    IF a.k = "nan" \/ b.k = "nan" THEN NaN
    ELSE IF a.k = "inf" /\ b.k = "inf" THEN (IF a.n = b.n THEN NaN ELSE a)
    ELSE IF a.k = "inf" THEN a
    ELSE IF b.k = "inf" THEN Inf(-b.n)
    ELSE Fin(a.n * b.d - b.n * a.d, a.d * b.d)

\* a / b: numpy float division, which never raises: 0/0 is NaN, x/0 is an
\* infinity of the sign of x
FDiv(a, b) ==
    IF a.k = "nan" \/ b.k = "nan" THEN NaN
    ELSE IF a.k = "inf" /\ b.k = "inf" THEN NaN
    ELSE IF a.k = "inf" THEN (IF b.n < 0 THEN Inf(-a.n) ELSE a)
    ELSE IF b.k = "inf" THEN Num(0)
    ELSE IF b.n = 0 THEN (IF a.n = 0 THEN NaN ELSE Inf(Sign(a.n)))
    ELSE Fin(a.n * b.d, a.d * b.n)

\* a * 100
FTimes100(a) ==
    IF a.k = "fin" THEN Fin(100 * a.n, a.d) ELSE a

\* a > c and a < c for an integer c: false whenever a is NaN
FGreater(a, c) ==
    \/ a.k = "fin" /\ a.n > c * a.d
    \/ a.k = "inf" /\ a.n > 0

FLess(a, c) ==
    \/ a.k = "fin" /\ a.n < c * a.d
    \/ a.k = "inf" /\ a.n < 0

----------------------------------------------------------------------------
(* calculate_indicators, lines 66-77.  df is the sequence of the rows of   *)
(* the data frame: records with the fields high, low and close.            *)

IMax(a, b) == IF a >= b THEN a ELSE b
IMin(a, b) == IF a <= b THEN a ELSE b
IAbs(a) == IF a < 0 THEN -a ELSE a

\* df['LC'] = df['收盘价'].shift(1)
LC(df, i) == IF i = 1 THEN NaN ELSE Num(df[i - 1].close)

\* combine(..., lambda x, y: max(x - y, 0)): max(nan, 0) is nan
Gain(df, i) ==
    LET diff == FSub(Num(df[i].close), LC(df, i))
    IN  IF diff.k = "nan" THEN NaN ELSE Num(IMax(diff.n, 0))

\* combine(..., lambda x, y: abs(x - y))
Move(df, i) ==
    LET diff == FSub(Num(df[i].close), LC(df, i))
    IN  IF diff.k = "nan" THEN NaN ELSE Num(IAbs(diff.n))

\* the two columns that lines 70-71 take rolling means of
GainColumn(df) == [i \in 1 .. Len(df) |-> Gain(df, i)]
MoveColumn(df) == [i \in 1 .. Len(df) |-> Move(df, i)]

RECURSIVE SumOver(_, _, _)
SumOver(col, lo, hi) ==
    IF lo > hi THEN 0 ELSE col[lo].n + SumOver(col, lo + 1, hi)

\* col.rolling(N).mean() at row i: NaN until N values that are not NaN
RollingMean(col, i, N) ==
    IF i < N \/ \E j \in (i - N + 1) .. i : col[j].k = "nan" THEN NaN
    ELSE Fin(SumOver(col, i - N + 1, i), N)

RECURSIVE HighOver(_, _, _)
HighOver(df, lo, hi) ==
    IF lo = hi THEN df[lo].high ELSE IMax(df[lo].high, HighOver(df, lo + 1, hi))

RECURSIVE LowOver(_, _, _)
LowOver(df, lo, hi) ==
    IF lo = hi THEN df[lo].low ELSE IMin(df[lo].low, LowOver(df, lo + 1, hi))

\* df['最高价'].rolling(N).max() and df['最低价'].rolling(N).min() at row i
RollingHigh(df, i, N) == IF i < N THEN NaN ELSE Num(HighOver(df, i - N + 1, i))
RollingLow(df, i, N) == IF i < N THEN NaN ELSE Num(LowOver(df, i - N + 1, i))

\* lines 70-72
RSI1(df, i) ==
    FTimes100(FDiv(RollingMean(GainColumn(df), i, N1), RollingMean(MoveColumn(df), i, N1)))

\* lines 73-76, for the window N
WR(df, i, N) ==
    FTimes100(FDiv(FSub(RollingHigh(df, i, N), Num(df[i].close)),
                   FSub(RollingHigh(df, i, N), RollingLow(df, i, N))))

WR1(df, i) == WR(df, i, N2)
WR2(df, i) == WR(df, i, N3)

----------------------------------------------------------------------------
(* select_stock, lines 79-102.  A history file is [kind, rows]: "missing" *)
(* (no such file), "garbled" (pd.read_csv raises), "nocols" (a frame with  *)
(* rows but without the columns calculate_indicators reads) or "data".     *)
(* A lookup is what ak.stock_financial_analysis_indicator did: "raise",    *)
(* "empty" or "ok", and then which of the two fields the first row holds.  *)

MissingFile == [kind |-> "missing", rows |-> <<>>]
GarbledFile == [kind |-> "garbled", rows |-> <<>>]
NoColsFile == [kind |-> "nocols", rows |-> <<>>]
DataFile(rows) == [kind |-> "data", rows |-> rows]

Lookup(kind, has_mv, has_date) == [kind |-> kind, has_mv |-> has_mv, has_date |-> has_date]

\* line 94: finance.iloc[0].get("总市值", 0)
TotalValue(lookup, instrument) == IF lookup.has_mv THEN instrument.total_mv ELSE 0

\* line 95: the default is a later datetime.now(), so the difference is -1 day
ListDays(lookup, instrument, today) ==
    IF lookup.has_date THEN today - instrument.list_date ELSE -1

\* line 96, with mkt_cap = total / 1e8
BelowMinimum(lookup, instrument, today) ==
    \/ TotalValue(lookup, instrument) < MIN_MKT_CAP * YI
    \/ ListDays(lookup, instrument, today) < MIN_LIST_DAYS

\* line 100
PassesRule(df) ==
    LET i == Len(df)
    IN  /\ FGreater(RSI1(df, i), RSI_MIN)
        /\ FLess(WR1(df, i), WR_MAX)
        /\ FLess(WR2(df, i), WR_MAX)

\* "None", "selected" (the stock code is returned) or "raise"
select_stock(file, lookup, instrument, today) ==
    IF file.kind = "missing" THEN "None"
    ELSE IF file.kind = "garbled" THEN "raise"
    ELSE IF file.kind = "data" /\ file.rows = <<>> THEN "None"
    ELSE IF file.kind = "nocols" THEN "raise"
    ELSE IF lookup.kind = "empty" THEN "None"
    ELSE IF lookup.kind = "ok" /\ BelowMinimum(lookup, instrument, today) THEN "None"
    ELSE IF PassesRule(file.rows) THEN "selected"
    ELSE "None"

Lookups ==
    { Lookup("raise", FALSE, FALSE), Lookup("empty", FALSE, FALSE),
      Lookup("ok", TRUE, TRUE), Lookup("ok", FALSE, TRUE), Lookup("ok", TRUE, FALSE) }

----------------------------------------------------------------------------
(* Bar series: closes that move by two alternating steps from BasePrice,   *)
(* with highs and lows that either follow the close or stay fixed.         *)

BasePrice == 100
Steps == {-1, 0, 2}

CloseAt(i, a, b) == BasePrice + a * (i \div 2) + b * ((i - 1) \div 2)

\* high = close + up, low = close - dn; the bar is malformed when up < 0
Tracking(len, a, b, up, dn) ==
    [i \in 1 .. len |->
        [high |-> CloseAt(i, a, b) + up, low |-> CloseAt(i, a, b) - dn,
         close |-> CloseAt(i, a, b)]]

\* high and low fixed, whatever the close does
Fixed(len, a, b, hi, lo) ==
    [i \in 1 .. len |-> [high |-> hi, low |-> lo, close |-> CloseAt(i, a, b)]]

MaxBars == N3 + ExtraBars

SeriesFamily ==
    { Tracking(len, a, b, up, dn) :
        len \in 0 .. MaxBars, a \in Steps, b \in Steps, up \in {-1, 0, 1}, dn \in {0, 1} }
    \cup
    { Fixed(len, a, b, BasePrice + w, BasePrice - w) :
        len \in 0 .. MaxBars, a \in Steps, b \in Steps, w \in {0, 40} }

FileFamily == {MissingFile, GarbledFile, NoColsFile} \cup {DataFile(r) : r \in SeriesFamily}

\* instruments at and just below each minimum, listed relative to the day d
Instruments(d) ==
    { [total_mv |-> mv, list_date |-> d - age] :
        mv \in {MIN_MKT_CAP * YI - 1, MIN_MKT_CAP * YI},
        age \in {MIN_LIST_DAYS - 1, MIN_LIST_DAYS} }

----------------------------------------------------------------------------
(* The clock *)

Tick ==
    /\ now < day0 + MaxTicks
    /\ now' = now + 1
    /\ UNCHANGED <<day0, batchVars, screenVars, history_file, chart>>

----------------------------------------------------------------------------
(* Runs of main seen from the count history: everything before line 151    *)
(* is the number of selected instruments it hands over.                    *)

InitCommon ==
    /\ now \in FirstDays
    /\ day0 = now
    /\ pc = "idle"
    /\ runs = 0
    /\ stock_list = <<>>
    /\ dl_pending = {}
    /\ failed_list = <<>>
    /\ sel_pending = {}
    /\ result = <<>>
    /\ selected_stocks = <<>>
    /\ selected_file = NoFile
    /\ chart = <<>>
    /\ history_at_start = NoFile
    /\ bars = MissingFile
    /\ fin = Lookup("raise", FALSE, FALSE)
    /\ inst = [total_mv |-> 0, list_date |-> 0]
    /\ res = "unset"

MainRun(n) ==
    /\ HistLen < TRADE_DAYS_HISTORY + MaxExtraRows
    /\ RecordCount(n)
    /\ UNCHANGED <<day0, batchVars, screenVars>>

NextHistory ==
    \/ Tick
    \/ \E n \in 0 .. MaxCount : MainRun(n)

InitHistory ==
    /\ InitCommon
    /\ files = <<>>
    /\ history_file = NoFile

SpecHistory == InitHistory /\ [][NextHistory]_vars

----------------------------------------------------------------------------
(* main, lines 119-170, one run after another.                             *)

Codes == {"600519", "830799"}

\* what the instruments truly are: the last one was listed ten days before
\* FirstDay, the others long ago; all are above the market value minimum
InstrumentOf(code) ==
    IF code = "830799"
    THEN [total_mv |-> MIN_MKT_CAP * YI, list_date |-> FirstDay - 10]
    ELSE [total_mv |-> MIN_MKT_CAP * YI, list_date |-> FirstDay - 10 * MIN_LIST_DAYS]

RECURSIVE SeqsUpTo(_)
SeqsUpTo(n) ==
    IF n = 0 THEN {<<>>}
    ELSE SeqsUpTo(n - 1) \cup {Append(q, c) : q \in {r \in SeqsUpTo(n - 1) : Len(r) = n - 1}, c \in Codes}

FailedCall == [ok |-> FALSE, codes |-> <<>>]
\* what a list interface answers: an exception, or a column of codes, in any
\* order and with repetitions
ListResponses ==
    {FailedCall} \cup {[ok |-> TRUE, codes |-> q] : q \in SeqsUpTo(Cardinality(Codes))}

RECURSIVE DropDuplicates(_)
\* drop_duplicates(subset=['代码']): the first row of each code is kept
DropDuplicates(q) ==
    IF q = <<>> THEN <<>>
    ELSE LET front == DropDuplicates(SubSeq(q, 1, Len(q) - 1))
         IN  IF \E i \in 1 .. Len(front) : front[i] = Last(q)
             THEN front ELSE Append(front, Last(q))

\* get_stock_list, lines 28-51: a list whose call failed adds nothing
get_stock_list(sh, bj) ==
    DropDuplicates((IF sh.ok THEN sh.codes ELSE <<>>) \o (IF bj.ok THEN bj.codes ELSE <<>>))

Range(q) == {q[i] : i \in 1 .. Len(q)}

RisingSeries == Tracking(MaxBars, 2, 2, 1, 1)
FallingSeries == Tracking(MaxBars, -1, -1, 1, 1)

FailedDownload == [kind |-> "fail", rows |-> <<>>]
\* what ak.stock_zh_a_hist leads download_history to: an exception (or an
\* empty frame, which raises), or a frame that is written to the file
DownloadResponses ==
    {FailedDownload, NoColsFile, DataFile(RisingSeries), DataFile(FallingSeries)}

\* download_history, lines 53-64: the file after the call
download_history(file, resp) == IF resp.kind = "fail" THEN file ELSE resp

\* lines 120-128: the list is fetched and every download is submitted
StartRun ==
    /\ pc \in {"idle", "done", "aborted", "cancelled"}
    /\ runs < MaxRuns
    /\ \E sh \in ListResponses, bj \in ListResponses :
          stock_list' = get_stock_list(sh, bj)
    /\ runs' = runs + 1
    /\ dl_pending' = Range(stock_list')
    /\ failed_list' = <<>>
    /\ sel_pending' = {}
    /\ result' = [c \in Codes |-> "pending"]
    /\ selected_stocks' = <<>>
    /\ history_at_start' = history_file
    /\ pc' = "download"
    /\ UNCHANGED <<now, day0, files, selected_file, history_file, chart, screenVars>>

\* lines 129-132: one download future completes and main takes its result
DownloadTask(code) ==
    /\ pc = "download"
    /\ code \in dl_pending
    /\ \E resp \in DownloadResponses :
          /\ files' = [files EXCEPT ![code] = download_history(files[code], resp)]
          /\ failed_list' = IF resp.kind = "fail" THEN Append(failed_list, code)
                             ELSE failed_list
    /\ dl_pending' = dl_pending \ {code}
    /\ UNCHANGED <<now, day0, pc, runs, stock_list, sel_pending, result, selected_stocks,
                   selected_file, history_file, chart, history_at_start, screenVars>>

\* lines 133-140: every failed download is tried once more, then every
\* selection is submitted
RetryAndSubmit ==
    /\ pc = "download"
    /\ dl_pending = {}
    /\ \E resp \in [Range(failed_list) -> DownloadResponses] :
          files' = [c \in Codes |->
                      IF c \in Range(failed_list)
                      THEN download_history(files[c], resp[c]) ELSE files[c]]
    /\ sel_pending' = Range(stock_list)
    /\ pc' = "select"
    /\ UNCHANGED <<now, day0, runs, stock_list, dl_pending, failed_list, result,
                   selected_stocks, selected_file, history_file, chart,
                   history_at_start, screenVars>>

\* a slip in which the count is recorded as each selection result arrives
SelectTask_Recording(code) ==
    /\ pc = "select"
    /\ code \in sel_pending
    /\ \E lookup \in Lookups :
          LET r == select_stock(files[code], lookup, InstrumentOf(code), now)
          IN  /\ result' = [result EXCEPT ![code] = r]
              /\ selected_stocks' = IF r = "selected" THEN Append(selected_stocks, code)
                                     ELSE selected_stocks
              /\ pc' = IF r = "raise" THEN "aborted" ELSE pc
    /\ sel_pending' = sel_pending \ {code}
    /\ history_file' = File(UpdateHistory(history_file, now, now, Len(selected_stocks')))
    /\ UNCHANGED <<now, day0, runs, stock_list, files, dl_pending, failed_list,
                   selected_file, chart, history_at_start, screenVars>>

\* lines 141-144: one selection future completes and main takes its result;
\* future.result() raises what select_stock raised, which ends main
SelectTask(code) ==
    /\ pc = "select"
    /\ code \in sel_pending
    /\ \E lookup \in Lookups :
          LET r == select_stock(files[code], lookup, InstrumentOf(code), now)
          IN  /\ result' = [result EXCEPT ![code] = r]
              /\ selected_stocks' = IF r = "selected" THEN Append(selected_stocks, code)
                                     ELSE selected_stocks
              /\ pc' = IF r = "raise" THEN "aborted" ELSE pc
    /\ sel_pending' = sel_pending \ {code}
    /\ UNCHANGED <<now, day0, runs, stock_list, files, dl_pending, failed_list,
                   selected_file, history_file, chart, history_at_start, screenVars>>

\* a slip that reports the codes in the order their futures completed
IsIn_CompletionOrder(list, selected) == selected

RECURSIVE IsIn(_, _)
\* stock_list[stock_list['代码'].isin(selected)]: the rows of stock_list, in
\* the order of stock_list, whose code is among selected
IsIn(list, selected) ==
    IF list = <<>> THEN <<>>
    ELSE IF list[1] \in Range(selected)
         THEN <<list[1]>> \o IsIn(Tail(list), selected)
         ELSE IsIn(Tail(list), selected)

\* lines 147-149
SaveSelected ==
    /\ pc = "select"
    /\ sel_pending = {}
    /\ selected_file' = File(IsIn(stock_list, selected_stocks))
    /\ pc' = "history"
    /\ UNCHANGED <<now, day0, runs, stock_list, files, dl_pending, failed_list,
                   sel_pending, result, selected_stocks, history_file, chart,
                   history_at_start, screenVars>>

\* lines 151-170
WriteHistory ==
    /\ pc = "history"
    /\ RecordCount(Len(selected_file.rows))
    /\ pc' = "done"
    /\ UNCHANGED <<day0, runs, stock_list, files, dl_pending, failed_list,
                   sel_pending, result, selected_stocks, selected_file,
                   history_at_start, screenVars>>

\* the run is interrupted (KeyboardInterrupt) before it writes the history
Cancel ==
    /\ pc \in {"download", "select", "history"}
    /\ pc' = "cancelled"
    /\ UNCHANGED <<now, day0, runs, stock_list, files, dl_pending, failed_list,
                   sel_pending, result, selected_stocks, selected_file,
                   history_file, chart, history_at_start, screenVars>>

\* the output directory is new, or holds the count history that a run of the
\* day before FirstDay, which selected nothing, left there
Init ==
    /\ InitCommon
    /\ now = FirstDay
    /\ files = [c \in Codes |-> MissingFile]
    /\ history_file \in {NoFile, File(UpdateHistory(NoFile, FirstDay - 1, FirstDay - 1, 0))}

Next ==
    \/ Tick
    \/ StartRun
    \/ \E code \in Codes : DownloadTask(code)
    \/ RetryAndSubmit
    \/ \E code \in Codes : SelectTask(code)
    \/ SaveSelected
    \/ WriteHistory
    \/ Cancel

Spec == Init /\ [][Next]_vars

----------------------------------------------------------------------------
(* One call of select_stock on a history file, a lookup and an instrument. *)

InitScreen ==
    /\ now = FirstDay
    /\ day0 = now
    /\ pc = "idle"
    /\ runs = 0
    /\ stock_list = <<>>
    /\ files = <<>>
    /\ dl_pending = {}
    /\ failed_list = <<>>
    /\ sel_pending = {}
    /\ result = <<>>
    /\ selected_stocks = <<>>
    /\ selected_file = NoFile
    /\ history_file = NoFile
    /\ chart = <<>>
    /\ history_at_start = NoFile
    /\ bars \in FileFamily
    /\ fin \in Lookups
    /\ inst \in Instruments(FirstDay)
    /\ res = "unset"

Screen ==
    /\ res = "unset"
    /\ res' = select_stock(bars, fin, inst, now)
    /\ UNCHANGED <<now, day0, batchVars, history_file, chart, bars, fin, inst>>

NextScreen == Screen

SpecScreen == InitScreen /\ [][NextScreen]_vars

----------------------------------------------------------------------------
(* Claims about the count history *)

Ascending(h) ==
    \A i \in 1 .. Len(h) - 1 : to_datetime(h[i].date) <= to_datetime(h[i + 1].date)

\* C1 (as stated): running main again for the same date with the same
\* selection count leaves the count history as the first run left it; the
\* date is not counted a second time.
C1_RerunIsIdempotent ==
    [][\A n \in 0 .. MaxCount :
          (MainRun(n) /\ history_file.exists /\ Last(history_file.rows) = Row(now, n))
              => history_file' = history_file]_vars

\* C2 (as stated): the persisted count history never holds more than
\* TRADE_DAYS_HISTORY dates; older dates are evicted as new ones arrive.
C2_WindowBounded == HistLen <= TRADE_DAYS_HISTORY

IsTradingWindow(h, today) ==
    /\ Len(h) = TRADE_DAYS_HISTORY
    /\ \A i \in 1 .. Len(h) - 1 : to_datetime(h[i].date) < to_datetime(h[i + 1].date)
    /\ Last(h).date = strftime(today)
    /\ \A i \in 1 .. Len(h) : weekday(to_datetime(h[i].date)) < 5

\* C6 (as stated): the first run, which finds no history file, leaves an
\* ascending sequence of exactly TRADE_DAYS_HISTORY trading dates ending at
\* the run date, none of them a Saturday or a Sunday.
C6_BackfillIsTradingWindow ==
    [][(~history_file.exists /\ history_file'.exists)
          => IsTradingWindow(history_file'.rows, now)]_vars

\* C7: the count history written to the history file, which is the one
\* handed to plot_count_history, is in ascending (non-decreasing) date
\* order after any sequence of runs that started with no history file.
C7_HistoryAscending ==
    history_file.exists
        => (chart = history_file.rows /\ Ascending(history_file.rows))

\* two runs on different days of different years, after the backfill
C7_Witness ==
    /\ history_file.exists
    /\ Len(history_file.rows) >= 2
    /\ history_file.rows[1].date[1] = 2023
    /\ Last(history_file.rows).date[1] = 2024
    /\ history_file.rows[Len(history_file.rows) - 1].count > 0
    /\ history_file.rows[Len(history_file.rows) - 1].date # Last(history_file.rows).date

----------------------------------------------------------------------------
(* Claims about the screening rule *)

\* the momentum ratio of the latest row is undefined: fewer than N1 + 1
\* bars, or a flat close over the momentum window
UndefinedMomentum(df) ==
    \/ Len(df) < N1 + 1
    \/ \A j \in (Len(df) - N1 + 1) .. Len(df) : df[j].close = df[j - 1].close

\* the extremum ratio of the latest row over the window N is undefined:
\* fewer than N bars, or maxHigh = minLow over the window
UndefinedExtremum(df, N) ==
    \/ Len(df) < N
    \/ HighOver(df, Len(df) - N + 1, Len(df)) = LowOver(df, Len(df) - N + 1, Len(df))

UndefinedComponent(df) ==
    \/ UndefinedMomentum(df)
    \/ UndefinedExtremum(df, N2)
    \/ UndefinedExtremum(df, N3)

\* C5 (as stated): select_stock returns None, and raises nothing, for every
\* bar series whose latest row has an undefined RSI1, WR1 or WR2, malformed
\* bars (close outside [low, high]) included.
C5_UndefinedNeverPasses ==
    (res # "unset" /\ bars.kind = "data" /\ bars.rows # <<>>
        /\ UndefinedComponent(bars.rows))
        => res = "None"

\* the instrument is below a minimum: its market value is under MIN_MKT_CAP
\* (in units of 1e8) or it has been listed for fewer than MIN_LIST_DAYS days
Ineligible(instrument, today) ==
    \/ instrument.total_mv < MIN_MKT_CAP * YI
    \/ today - instrument.list_date < MIN_LIST_DAYS

\* C10 (as stated): select_stock never selects an instrument that is below
\* MIN_LIST_DAYS or MIN_MKT_CAP, whatever the eligibility lookup did.
C10_IneligibleNeverSelected ==
    res = "selected" => ~Ineligible(inst, now)

----------------------------------------------------------------------------
(* Claims about a run of main *)

\* C3 (as stated): no failure of one instrument's task ends the run before
\* the selection output and the count history are written.
C3_TaskFailureNeverAborts == pc # "aborted"

RECURSIVE SelectedOf(_)
\* the codes of list, in its order, whose selection returned the code
SelectedOf(list) ==
    IF list = <<>> THEN <<>>
    ELSE IF result[list[1]] = "selected"
         THEN <<list[1]>> \o SelectedOf(Tail(list))
         ELSE SelectedOf(Tail(list))

\* C4: the selection output is the instruments whose selection passed, in
\* the order of the instrument list, each once, whatever the order in which
\* the selection futures completed.
C4_OutputDeterministic ==
    pc \in {"history", "done"}
        => /\ selected_file.exists
           /\ selected_file.rows = SelectedOf(stock_list)
           /\ \A i, j \in 1 .. Len(selected_file.rows) :
                  selected_file.rows[i] = selected_file.rows[j] => i = j

\* both instruments were selected, in the order opposite to that of the list
C4_Witness ==
    /\ pc = "done"
    /\ Len(selected_stocks) = 2
    /\ selected_file.rows # selected_stocks

\* no instrument of the list has a history file to read
NoUsableData == \A c \in Range(stock_list) : files[c].kind = "missing"

\* C8 (as stated): a run in which no instrument yields usable data does not
\* record a count for the date in the count history.
C8_NoDataNotRecorded ==
    (pc = "done" /\ NoUsableData) => history_file = history_at_start

\* C9: the count history is written only by main, once every selection
\* future of the run has completed and its result has been collected; a run
\* that is aborted or cancelled before that leaves the history file as it
\* was when the run started.
C9_NoPartialWrites ==
    [][/\ history_file' # history_file
            => /\ pc = "history"
               /\ sel_pending = {}
               /\ \A c \in Range(stock_list) : result[c] # "pending"
       /\ pc' \in {"aborted", "cancelled"} => history_file' = history_at_start']_vars

\* a run cancelled during the selection, after a result was collected, with
\* a history file written by an earlier run
C9_Witness ==
    /\ pc = "cancelled"
    /\ history_at_start.exists
    /\ selected_stocks # <<>>
    /\ sel_pending # {}
    /\ history_file = history_at_start

====
